---- MODULE Spec2Model ----
(***************************************************************************)
(* Session lifecycle of the Pimax OpenXR runtime                           *)
(* (src/pimax-openxr/session.cpp): xrCreateSession, xrDestroySession,      *)
(* xrBeginSession, xrEndSession, xrRequestExitSession.                     *)
(*                                                                         *)
(* The runtime is single-threaded and the caller serializes its calls, so  *)
(* xrCreateSession, xrBeginSession, xrEndSession and xrRequestExitSession  *)
(* are one action each.  xrDestroySession is followed statement by         *)
(* statement (pc), because the order of its teardown is what several       *)
(* properties are about; while it runs no other call is accepted.          *)
(*                                                                         *)
(* Collaborators that session.cpp calls but does not define (backend       *)
(* initializers and cleanups, xrCreateReferenceSpace, xrDestroySpace,      *)
(* xrDestroySwapchain, the device clock, event delivery, frame signalling) *)
(* are modelled by their contract: their outcome is an input of the step.  *)
(***************************************************************************)
EXTENDS Integers, Sequences, FiniteSets, TLC

\* ------------------------------------------------------------------ bounds

\* Longest request chain (createInfo->next) a Create call carries.
MaxChain == 2
\* Most swapchains a session owns at once.
MaxSwapchains == 2
\* Largest reading of the device clock; later readings repeat it.
MaxTime == 1
\* Most frames counted in m_sessionTotalFrameCount.
MaxFrames == 1
\* Most extensions an instance is created with.
MaxExtensions == 2
\* Largest difference kept between the state changes made and the events
\* delivered, either way; beyond it the difference stays at this value.
MaxUndelivered == 2

\* --------------------------------------------------------------- constants

\* (XrInstance)1, (XrSystemId)1, (XrSession)1: the one valid handle value.
XR_VALID_HANDLE == 1
\* XR_NULL_HANDLE
XR_NULL_HANDLE == 0

Handles == {XR_VALID_HANDLE, XR_VALID_HANDLE + 1}

Backends == {"D3D11", "D3D12", "Vulkan", "OpenGL"}

\* Structure tags a chain entry can carry: the four graphics bindings and
\* one tag session.cpp does not look for.
EntryTypes == {"XR_TYPE_GRAPHICS_BINDING_D3D11_KHR",
               "XR_TYPE_GRAPHICS_BINDING_D3D12_KHR",
               "XR_TYPE_GRAPHICS_BINDING_VULKAN_KHR",
               "XR_TYPE_GRAPHICS_BINDING_OPENGL_WIN32_KHR",
               "XR_TYPE_UNKNOWN"}

Extensions == {"XR_KHR_D3D11_enable", "XR_KHR_D3D12_enable",
               "XR_KHR_vulkan_enable", "XR_KHR_vulkan_enable2",
               "XR_KHR_opengl_enable"}

SessionStates == {"XR_SESSION_STATE_UNKNOWN", "XR_SESSION_STATE_IDLE",
                  "XR_SESSION_STATE_READY", "XR_SESSION_STATE_SYNCHRONIZED",
                  "XR_SESSION_STATE_VISIBLE", "XR_SESSION_STATE_FOCUSED",
                  "XR_SESSION_STATE_STOPPING"}

ViewConfigurationTypes == {"XR_VIEW_CONFIGURATION_TYPE_PRIMARY_MONO",
                           "XR_VIEW_CONFIGURATION_TYPE_PRIMARY_STEREO"}

\* What a backend initializer can return.
InitResults == {"XR_SUCCESS", "XR_ERROR_GRAPHICS_DEVICE_INVALID",
                "XR_ERROR_RUNTIME_FAILURE"}

\* The outcome of a handler left by a thrown exception (CHECK_XRCMD,
\* CHECK_PVRCMD).
EXCEPTION == "exception"
\* The outcome of a handler that has not returned yet.
PENDING == "pending"

ExtensionSets == {e \in SUBSET Extensions : Cardinality(e) <= MaxExtensions}

XR_FAILED(result) == result # "XR_SUCCESS"

Chains == UNION {[1..n -> EntryTypes] : n \in 0..MaxChain}

\* The lifecycle specification follows an application that enables the
\* D3D11 extension alone and passes chains of at most one entry.
LifecycleExtensionSets == {{"XR_KHR_D3D11_enable"}}

LifecycleChains == {<<>>} \cup {<<e>> : e \in EntryTypes}

VARIABLES
    \* instance-level state, written outside session.cpp
    m_instanceCreated, m_systemCreated, m_graphicsRequirementQueried,
    enabledExtensions,
    \* the session
    m_sessionCreated, m_sessionState, m_sessionStateDirty,
    m_sessionStateEventTime, m_sessionExiting, m_sessionStartTime,
    m_sessionTotalFrameCount, m_originSpace, m_viewSpace, m_swapchains,
    \* the backends that hold initialized graphics resources
    initialized,
    \* position inside xrDestroySession
    pc,
    \* the successful state changes made so far less the state-change
    \* events delivered so far
    undeliveredTransitions,
    \* the last call: its inputs, its outcome, the collaborator calls it
    \* made in order, and the session as it was when the call was entered
    last

instanceVars == <<m_instanceCreated, m_systemCreated,
                  m_graphicsRequirementQueried, enabledExtensions>>

sessionVars == <<m_sessionCreated, m_sessionState, m_sessionStateDirty,
                 m_sessionStateEventTime, m_sessionExiting, m_sessionStartTime,
                 m_sessionTotalFrameCount, m_originSpace, m_viewSpace,
                 m_swapchains, initialized>>

vars == <<instanceVars, sessionVars, pc, undeliveredTransitions, last>>

\* Every field of the session, as one value.
Snapshot ==
    [created |-> m_sessionCreated, state |-> m_sessionState,
     dirty |-> m_sessionStateDirty, eventTime |-> m_sessionStateEventTime,
     exiting |-> m_sessionExiting, startTime |-> m_sessionStartTime,
     frameCount |-> m_sessionTotalFrameCount, originSpace |-> m_originSpace,
     viewSpace |-> m_viewSpace, swapchains |-> m_swapchains,
     initialized |-> initialized]

InitSnapshot ==
    [created |-> FALSE, state |-> "XR_SESSION_STATE_UNKNOWN", dirty |-> FALSE,
     eventTime |-> 0, exiting |-> FALSE, startTime |-> 0, frameCount |-> 0,
     originSpace |-> XR_NULL_HANDLE, viewSpace |-> XR_NULL_HANDLE,
     swapchains |-> {}, initialized |-> {}]

\* The record of a step that is no lifecycle call.  (initResult: what the
\* backend initializer returned to xrCreateSession, "none" when none ran.)
NoCall ==
    [op |-> "none", result |-> "XR_SUCCESS", typeOk |-> TRUE,
     handle |-> XR_VALID_HANDLE, systemId |-> XR_VALID_HANDLE,
     viewConfig |-> "XR_VIEW_CONFIGURATION_TYPE_PRIMARY_STEREO",
     chain |-> <<>>, calls |-> <<>>, initResult |-> "none",
     pre |-> InitSnapshot]

\* A collaborator call made by a handler.
Call(fn, arg) == [fn |-> fn, arg |-> arg]

\* Mutant: the device clock can step back below an earlier reading.
ClockReadings_NotMonotonic == 0..MaxTime

\* pvr_getTimeSeconds: a reading of the monotonic device clock, never below
\* an earlier one.  Every reading the session keeps is kept in
\* m_sessionStateEventTime too, and the one xrDestroySession takes for its
\* telemetry record is kept nowhere, so that field is the latest reading
\* a later one can be compared with.
ClockReadings == {t \in 0..MaxTime : t >= m_sessionStateEventTime}

\* One more state change has been made by a call that succeeds (lines
\* 159-161, 229, 261-263, 281-283, 302-304) or by the frame and focus
\* signalling.
TransitionMade ==
    undeliveredTransitions' = IF undeliveredTransitions < MaxUndelivered
                              THEN undeliveredTransitions + 1
                              ELSE undeliveredTransitions

\* One more state-change event has been delivered.
EventDelivered ==
    undeliveredTransitions' = IF undeliveredTransitions > -MaxUndelivered
                              THEN undeliveredTransitions - 1
                              ELSE undeliveredTransitions

Init ==
    /\ m_instanceCreated = FALSE
    /\ m_systemCreated = FALSE
    /\ m_graphicsRequirementQueried = FALSE
    /\ enabledExtensions = {}
    /\ m_sessionCreated = FALSE
    /\ m_sessionState = "XR_SESSION_STATE_UNKNOWN"
    /\ m_sessionStateDirty = FALSE
    /\ m_sessionStateEventTime = 0
    /\ m_sessionExiting = FALSE
    /\ m_sessionStartTime = 0
    /\ m_sessionTotalFrameCount = 0
    /\ m_originSpace = XR_NULL_HANDLE
    /\ m_viewSpace = XR_NULL_HANDLE
    /\ m_swapchains = {}
    /\ initialized = {}
    /\ pc = "ready"
    /\ undeliveredTransitions = 0
    /\ last = NoCall

\* The caller serializes its calls: a call is entered only after the one
\* before it has returned and the caller has taken its outcome.
CallerReady == pc = "ready" /\ last.op = "none"

\* The caller takes the outcome of the call that returned.
ReturnToCaller ==
    /\ pc = "ready"
    /\ last.op # "none"
    /\ last' = NoCall
    /\ UNCHANGED <<instanceVars, sessionVars, pc, undeliveredTransitions>>

\* ------------------------------------------------------- xrBeginSession

\* Mutant: xrBeginSession checks the state before the view configuration.
BeginChecks_StateFirst(typeOk, session, viewConfig) ==
    IF ~typeOk THEN "XR_ERROR_VALIDATION_FAILURE"
    ELSE IF ~m_sessionCreated \/ session # XR_VALID_HANDLE
        THEN "XR_ERROR_HANDLE_INVALID"
    ELSE IF m_sessionState # "XR_SESSION_STATE_IDLE"
            /\ m_sessionState # "XR_SESSION_STATE_READY"
        THEN "XR_ERROR_SESSION_NOT_READY"
    ELSE IF viewConfig # "XR_VIEW_CONFIGURATION_TYPE_PRIMARY_STEREO"
        THEN "XR_ERROR_VIEW_CONFIGURATION_TYPE_UNSUPPORTED"
    ELSE "XR_SUCCESS"

\* Mutant: the state check of xrBeginSession is left out.
BeginChecks_NoStateCheck(typeOk, session, viewConfig) ==
    IF ~typeOk THEN "XR_ERROR_VALIDATION_FAILURE"
    ELSE IF ~m_sessionCreated \/ session # XR_VALID_HANDLE
        THEN "XR_ERROR_HANDLE_INVALID"
    ELSE IF viewConfig # "XR_VIEW_CONFIGURATION_TYPE_PRIMARY_STEREO"
        THEN "XR_ERROR_VIEW_CONFIGURATION_TYPE_UNSUPPORTED"
    ELSE "XR_SUCCESS"

\* The checks of xrBeginSession, in order; XR_SUCCESS when all pass.
BeginChecks(typeOk, session, viewConfig) ==
    IF ~typeOk THEN "XR_ERROR_VALIDATION_FAILURE"
    ELSE IF ~m_sessionCreated \/ session # XR_VALID_HANDLE
        THEN "XR_ERROR_HANDLE_INVALID"
    ELSE IF viewConfig # "XR_VIEW_CONFIGURATION_TYPE_PRIMARY_STEREO"
        THEN "XR_ERROR_VIEW_CONFIGURATION_TYPE_UNSUPPORTED"
    ELSE IF m_sessionState # "XR_SESSION_STATE_IDLE"
            /\ m_sessionState # "XR_SESSION_STATE_READY"
        THEN "XR_ERROR_SESSION_NOT_READY"
    ELSE "XR_SUCCESS"

xrBeginSession(typeOk, session, viewConfig) ==
    /\ CallerReady
    /\ LET result == BeginChecks(typeOk, session, viewConfig) IN
       /\ last' = [NoCall EXCEPT !.op = "xrBeginSession", !.result = result,
                                 !.typeOk = typeOk, !.handle = session,
                                 !.viewConfig = viewConfig, !.pre = Snapshot]
       /\ IF result = "XR_SUCCESS"
          THEN \E t \in ClockReadings :
                 /\ m_sessionState' = "XR_SESSION_STATE_SYNCHRONIZED"
                 /\ m_sessionStateDirty' = TRUE
                 /\ m_sessionStateEventTime' = t
                 /\ TransitionMade
          ELSE UNCHANGED <<m_sessionState, m_sessionStateDirty,
                           m_sessionStateEventTime, undeliveredTransitions>>
    /\ UNCHANGED <<instanceVars, m_sessionCreated, m_sessionExiting,
                   m_sessionStartTime, m_sessionTotalFrameCount, m_originSpace,
                   m_viewSpace, m_swapchains, initialized, pc>>

\* --------------------------------------------------------- xrEndSession

\* Mutant: the state check of xrEndSession is left out.
EndChecks_AnyState(session) ==
    IF ~m_sessionCreated \/ session # XR_VALID_HANDLE
        THEN "XR_ERROR_HANDLE_INVALID"
    ELSE "XR_SUCCESS"

\* The checks of xrEndSession, in order; XR_SUCCESS when all pass.
EndChecks(session) ==
    IF ~m_sessionCreated \/ session # XR_VALID_HANDLE
        THEN "XR_ERROR_HANDLE_INVALID"
    ELSE IF m_sessionState # "XR_SESSION_STATE_STOPPING"
        THEN "XR_ERROR_SESSION_NOT_STOPPING"
    ELSE "XR_SUCCESS"

\* Mutant: xrEndSession does not set m_sessionExiting.
xrEndSession_ForgetsExiting(session) ==
    /\ CallerReady
    /\ LET result == EndChecks(session) IN
       /\ last' = [NoCall EXCEPT !.op = "xrEndSession", !.result = result,
                                 !.handle = session, !.pre = Snapshot]
       /\ IF result = "XR_SUCCESS"
          THEN \E t \in ClockReadings :
                 /\ m_sessionState' = "XR_SESSION_STATE_IDLE"
                 /\ m_sessionStateDirty' = TRUE
                 /\ m_sessionStateEventTime' = t
                 /\ TransitionMade
          ELSE UNCHANGED <<m_sessionState, m_sessionStateDirty,
                           m_sessionStateEventTime, undeliveredTransitions>>
    /\ UNCHANGED <<instanceVars, m_sessionCreated, m_sessionExiting,
                   m_sessionStartTime, m_sessionTotalFrameCount, m_originSpace,
                   m_viewSpace, m_swapchains, initialized, pc>>

xrEndSession(session) ==
    /\ CallerReady
    /\ LET result == EndChecks(session) IN
       /\ last' = [NoCall EXCEPT !.op = "xrEndSession", !.result = result,
                                 !.handle = session, !.pre = Snapshot]
       /\ IF result = "XR_SUCCESS"
          THEN \E t \in ClockReadings :
                 /\ m_sessionExiting' = TRUE
                 /\ m_sessionState' = "XR_SESSION_STATE_IDLE"
                 /\ m_sessionStateDirty' = TRUE
                 /\ m_sessionStateEventTime' = t
                 /\ TransitionMade
          ELSE UNCHANGED <<m_sessionExiting, m_sessionState,
                           m_sessionStateDirty, m_sessionStateEventTime,
                           undeliveredTransitions>>
    /\ UNCHANGED <<instanceVars, m_sessionCreated, m_sessionStartTime,
                   m_sessionTotalFrameCount, m_originSpace, m_viewSpace,
                   m_swapchains, initialized, pc>>

\* ------------------------------------------------- xrRequestExitSession

\* Mutant: xrRequestExitSession refuses an idle session only.
RequestExitChecks_IdleOnly(session) ==
    IF ~m_sessionCreated \/ session # XR_VALID_HANDLE
        THEN "XR_ERROR_HANDLE_INVALID"
    ELSE IF m_sessionState = "XR_SESSION_STATE_IDLE"
        THEN "XR_ERROR_SESSION_NOT_RUNNING"
    ELSE "XR_SUCCESS"

\* The checks of xrRequestExitSession, in order; XR_SUCCESS when all pass.
RequestExitChecks(session) ==
    IF ~m_sessionCreated \/ session # XR_VALID_HANDLE
        THEN "XR_ERROR_HANDLE_INVALID"
    ELSE IF m_sessionState # "XR_SESSION_STATE_SYNCHRONIZED"
            /\ m_sessionState # "XR_SESSION_STATE_VISIBLE"
            /\ m_sessionState # "XR_SESSION_STATE_FOCUSED"
        THEN "XR_ERROR_SESSION_NOT_RUNNING"
    ELSE "XR_SUCCESS"

xrRequestExitSession(session) ==
    /\ CallerReady
    /\ LET result == RequestExitChecks(session) IN
       /\ last' = [NoCall EXCEPT !.op = "xrRequestExitSession",
                                 !.result = result, !.handle = session,
                                 !.pre = Snapshot]
       /\ IF result = "XR_SUCCESS"
          THEN \E t \in ClockReadings :
                 /\ m_sessionState' = "XR_SESSION_STATE_STOPPING"
                 /\ m_sessionStateDirty' = TRUE
                 /\ m_sessionStateEventTime' = t
                 /\ TransitionMade
          ELSE UNCHANGED <<m_sessionState, m_sessionStateDirty,
                           m_sessionStateEventTime, undeliveredTransitions>>
    /\ UNCHANGED <<instanceVars, m_sessionCreated, m_sessionExiting,
                   m_sessionStartTime, m_sessionTotalFrameCount, m_originSpace,
                   m_viewSpace, m_swapchains, initialized, pc>>

\* ------------------------------------------------------ xrCreateSession

has_XR_KHR_D3D11_enable == "XR_KHR_D3D11_enable" \in enabledExtensions
has_XR_KHR_D3D12_enable == "XR_KHR_D3D12_enable" \in enabledExtensions
has_XR_KHR_vulkan_enable == "XR_KHR_vulkan_enable" \in enabledExtensions
has_XR_KHR_vulkan_enable2 == "XR_KHR_vulkan_enable2" \in enabledExtensions
has_XR_KHR_opengl_enable == "XR_KHR_opengl_enable" \in enabledExtensions

\* Mutant: xrCreateSession checks the system before the instance.
CreateChecks_SystemFirst(typeOk, instance, systemId) ==
    IF ~typeOk THEN "XR_ERROR_VALIDATION_FAILURE"
    ELSE IF ~m_systemCreated \/ systemId # XR_VALID_HANDLE
        THEN "XR_ERROR_SYSTEM_INVALID"
    ELSE IF ~m_instanceCreated \/ instance # XR_VALID_HANDLE
        THEN "XR_ERROR_HANDLE_INVALID"
    ELSE IF ~m_graphicsRequirementQueried
        THEN "XR_ERROR_GRAPHICS_REQUIREMENTS_CALL_MISSING"
    ELSE IF m_sessionCreated THEN "XR_ERROR_LIMIT_REACHED"
    ELSE "XR_SUCCESS"

\* Mutant: xrCreateSession does not check for an existing session.
CreateChecks_NoLimit(typeOk, instance, systemId) ==
    IF ~typeOk THEN "XR_ERROR_VALIDATION_FAILURE"
    ELSE IF ~m_instanceCreated \/ instance # XR_VALID_HANDLE
        THEN "XR_ERROR_HANDLE_INVALID"
    ELSE IF ~m_systemCreated \/ systemId # XR_VALID_HANDLE
        THEN "XR_ERROR_SYSTEM_INVALID"
    ELSE IF ~m_graphicsRequirementQueried
        THEN "XR_ERROR_GRAPHICS_REQUIREMENTS_CALL_MISSING"
    ELSE "XR_SUCCESS"

\* The precondition checks of xrCreateSession, in order; XR_SUCCESS when
\* all pass.
CreateChecks(typeOk, instance, systemId) ==
    IF ~typeOk THEN "XR_ERROR_VALIDATION_FAILURE"
    ELSE IF ~m_instanceCreated \/ instance # XR_VALID_HANDLE
        THEN "XR_ERROR_HANDLE_INVALID"
    ELSE IF ~m_systemCreated \/ systemId # XR_VALID_HANDLE
        THEN "XR_ERROR_SYSTEM_INVALID"
    ELSE IF ~m_graphicsRequirementQueried
        THEN "XR_ERROR_GRAPHICS_REQUIREMENTS_CALL_MISSING"
    ELSE IF m_sessionCreated THEN "XR_ERROR_LIMIT_REACHED"
    ELSE "XR_SUCCESS"

\* The branch of the scan loop that a chain entry takes: the backend whose
\* initializer it is handed to, or "None" when the loop moves on.
BindingOf(entryType) ==
    IF has_XR_KHR_D3D11_enable
       /\ entryType = "XR_TYPE_GRAPHICS_BINDING_D3D11_KHR" THEN "D3D11"
    ELSE IF has_XR_KHR_D3D12_enable
       /\ entryType = "XR_TYPE_GRAPHICS_BINDING_D3D12_KHR" THEN "D3D12"
    ELSE IF (has_XR_KHR_vulkan_enable \/ has_XR_KHR_vulkan_enable2)
       /\ entryType = "XR_TYPE_GRAPHICS_BINDING_VULKAN_KHR" THEN "Vulkan"
    ELSE IF has_XR_KHR_opengl_enable
       /\ entryType = "XR_TYPE_GRAPHICS_BINDING_OPENGL_WIN32_KHR" THEN "OpenGL"
    ELSE "None"

\* Mutant: the scan loop has no break, so the last eligible entry wins.
ScanFrom_NoBreak(chain, i) ==
    LET eligible == {j \in i..Len(chain) : BindingOf(chain[j]) # "None"} IN
    IF eligible = {} THEN 0
    ELSE CHOOSE j \in eligible : \A k \in eligible : k <= j

\* The scan loop, from entry i on: the index of the entry whose initializer
\* is invoked, 0 when the chain is exhausted (entry = nullptr).
RECURSIVE ScanFrom(_, _)
ScanFrom(chain, i) ==
    IF i > Len(chain) THEN 0
    ELSE IF BindingOf(chain[i]) # "None" THEN i
    ELSE ScanFrom(chain, i + 1)

ScanChain(chain) == ScanFrom(chain, 1)

\* The name of a backend's initializer.
InitializerOf(backend) ==
    CASE backend = "D3D11" -> "initializeD3D11"
      [] backend = "D3D12" -> "initializeD3D12"
      [] backend = "Vulkan" -> "initializeVulkan"
      [] backend = "OpenGL" -> "initializeOpenGL"

\* initializeD3D11 / D3D12 / Vulkan / OpenGL: on success the backend holds
\* native device resources, on failure it holds none more than before.
InitializeBackend(backend, result) ==
    IF XR_FAILED(result) THEN initialized ELSE initialized \cup {backend}

\* xrCreateReferenceSpace: the handle of the space it creates.
NewSpaceHandle(referenceSpaceType) ==
    IF referenceSpaceType = "XR_REFERENCE_SPACE_TYPE_LOCAL" THEN 1 ELSE 2

CreateRecord(result, typeOk, instance, systemId, chain, calls) ==
    [NoCall EXCEPT !.op = "xrCreateSession", !.result = result,
                   !.typeOk = typeOk, !.handle = instance,
                   !.systemId = systemId, !.chain = chain, !.calls = calls,
                   !.pre = Snapshot]

\* Mutant: the catch block rethrows without clearing m_sessionCreated.
CreateBookkeeping_NoRollback(typeOk, instance, systemId, chain, calls, t, originOk, viewOk) ==
    LET spaceCalls ==
            <<Call("xrCreateReferenceSpace", NewSpaceHandle("XR_REFERENCE_SPACE_TYPE_LOCAL"))>>
            \o (IF originOk
                THEN <<Call("xrCreateReferenceSpace", NewSpaceHandle("XR_REFERENCE_SPACE_TYPE_VIEW"))>>
                ELSE <<>>)
        ok == originOk /\ viewOk
    IN
    /\ m_sessionCreated' = TRUE
    /\ m_sessionState' = "XR_SESSION_STATE_IDLE"
    /\ m_sessionStateDirty' = TRUE
    /\ m_sessionStateEventTime' = t
    /\ m_sessionStartTime' = t
    /\ m_sessionTotalFrameCount' = 0
    /\ m_originSpace' = IF originOk
                        THEN NewSpaceHandle("XR_REFERENCE_SPACE_TYPE_LOCAL")
                        ELSE m_originSpace
    /\ m_viewSpace' = IF ok
                      THEN NewSpaceHandle("XR_REFERENCE_SPACE_TYPE_VIEW")
                      ELSE m_viewSpace
    /\ last' = [CreateRecord(IF ok THEN "XR_SUCCESS" ELSE EXCEPTION, typeOk,
                             instance, systemId, chain, calls \o spaceCalls)
                EXCEPT !.initResult = "XR_SUCCESS"]
    /\ IF ok THEN TransitionMade ELSE UNCHANGED undeliveredTransitions
    /\ UNCHANGED <<m_sessionExiting, m_swapchains>>

\* Lines 156-200: the session is marked created, its bookkeeping reset and
\* the two reference spaces created; a failing xrCreateReferenceSpace
\* throws, and the catch block clears m_sessionCreated and rethrows.
CreateBookkeeping(typeOk, instance, systemId, chain, calls, t, originOk, viewOk) ==
    LET spaceCalls ==
            <<Call("xrCreateReferenceSpace", NewSpaceHandle("XR_REFERENCE_SPACE_TYPE_LOCAL"))>>
            \o (IF originOk
                THEN <<Call("xrCreateReferenceSpace", NewSpaceHandle("XR_REFERENCE_SPACE_TYPE_VIEW"))>>
                ELSE <<>>)
        ok == originOk /\ viewOk
    IN
    /\ m_sessionCreated' = ok
    /\ m_sessionState' = "XR_SESSION_STATE_IDLE"
    /\ m_sessionStateDirty' = TRUE
    /\ m_sessionStateEventTime' = t
    /\ m_sessionStartTime' = t
    /\ m_sessionTotalFrameCount' = 0
    /\ m_originSpace' = IF originOk
                        THEN NewSpaceHandle("XR_REFERENCE_SPACE_TYPE_LOCAL")
                        ELSE m_originSpace
    /\ m_viewSpace' = IF ok
                      THEN NewSpaceHandle("XR_REFERENCE_SPACE_TYPE_VIEW")
                      ELSE m_viewSpace
    /\ last' = [CreateRecord(IF ok THEN "XR_SUCCESS" ELSE EXCEPTION, typeOk,
                             instance, systemId, chain, calls \o spaceCalls)
                EXCEPT !.initResult = "XR_SUCCESS"]
    /\ IF ok THEN TransitionMade ELSE UNCHANGED undeliveredTransitions
    /\ UNCHANGED <<m_sessionExiting, m_swapchains>>

\* Lines 66-127: the scan of the request chain, the initializer of the
\* entry it stops at, and the recenter command.
CreateResolve(typeOk, instance, systemId, chain) ==
    LET i == ScanChain(chain) IN
    IF i = 0
    THEN /\ last' = CreateRecord("XR_ERROR_GRAPHICS_DEVICE_INVALID", typeOk,
                                 instance, systemId, chain, <<>>)
         /\ UNCHANGED <<sessionVars, undeliveredTransitions>>
    ELSE LET backend == BindingOf(chain[i])
             initCall == <<Call(InitializerOf(backend), i)>>
         IN
         \E result \in InitResults :
            IF XR_FAILED(result)
            THEN /\ last' = [CreateRecord(result, typeOk, instance, systemId,
                                          chain, initCall)
                             EXCEPT !.initResult = result]
                 /\ initialized' = InitializeBackend(backend, result)
                 /\ UNCHANGED <<m_sessionCreated, m_sessionState,
                                m_sessionStateDirty, m_sessionStateEventTime,
                                m_sessionExiting, m_sessionStartTime,
                                m_sessionTotalFrameCount, m_originSpace,
                                m_viewSpace, m_swapchains,
                                undeliveredTransitions>>
            ELSE \E recenter_on_startup \in BOOLEAN, recenterOk \in BOOLEAN :
                 /\ initialized' = InitializeBackend(backend, result)
                 /\ IF recenter_on_startup /\ ~recenterOk
                    THEN /\ last' = [CreateRecord(EXCEPTION, typeOk, instance,
                                        systemId, chain,
                                        initCall \o <<Call("pvr_recenterTrackingOrigin", 0)>>)
                                     EXCEPT !.initResult = result]
                         /\ UNCHANGED <<m_sessionCreated, m_sessionState,
                                        m_sessionStateDirty,
                                        m_sessionStateEventTime,
                                        m_sessionExiting, m_sessionStartTime,
                                        m_sessionTotalFrameCount,
                                        m_originSpace, m_viewSpace,
                                        m_swapchains, undeliveredTransitions>>
                    ELSE \E t \in ClockReadings, originOk \in BOOLEAN,
                            viewOk \in BOOLEAN :
                            CreateBookkeeping(typeOk, instance, systemId,
                                chain,
                                initCall \o (IF recenter_on_startup
                                             THEN <<Call("pvr_recenterTrackingOrigin", 0)>>
                                             ELSE <<>>),
                                t, originOk, viewOk)

xrCreateSession(typeOk, instance, systemId, chains) ==
    /\ CallerReady
    /\ LET result == CreateChecks(typeOk, instance, systemId) IN
       IF XR_FAILED(result)
       THEN /\ last' = CreateRecord(result, typeOk, instance, systemId,
                                    <<>>, <<>>)
            /\ UNCHANGED <<sessionVars, undeliveredTransitions>>
       ELSE \E chain \in chains :
                CreateResolve(typeOk, instance, systemId, chain)
    /\ UNCHANGED <<instanceVars, pc>>

\* ----------------------------------------------------- xrDestroySession

\* *m_swapchains.begin(): the first handle of the ordered set.
FirstSwapchain == CHOOSE h \in m_swapchains : \A g \in m_swapchains : h <= g

\* xrDestroySwapchain on success: the swapchain leaves the owned set.
DestroySwapchainEffect(swapchain) == m_swapchains \ {swapchain}

\* cleanupOpenGL, cleanupVulkan, cleanupD3D12, cleanupD3D11: each releases
\* the resources of its own backend and is a no-op for the others.
CleanupBackend(held, backend) == held \ {backend}

CleanupAll(held) ==
    CleanupBackend(CleanupBackend(CleanupBackend(CleanupBackend(held,
        "OpenGL"), "Vulkan"), "D3D12"), "D3D11")

\* The check of xrDestroySession; XR_SUCCESS when it passes.
DestroyChecks(session) ==
    IF ~m_sessionCreated \/ session # XR_VALID_HANDLE
        THEN "XR_ERROR_HANDLE_INVALID"
    ELSE "XR_SUCCESS"

\* Lines 204-211: the handle check, then the usage telemetry record (its
\* clock reading is kept nowhere).
xrDestroySession(session) ==
    /\ CallerReady
    /\ IF XR_FAILED(DestroyChecks(session))
       THEN /\ last' = [NoCall EXCEPT !.op = "xrDestroySession",
                                     !.result = DestroyChecks(session),
                                     !.handle = session, !.pre = Snapshot]
            /\ UNCHANGED pc
       ELSE /\ last' = [NoCall EXCEPT !.op = "xrDestroySession",
                                     !.result = PENDING,
                                     !.handle = session, !.pre = Snapshot]
            /\ pc' = "destroySwapchains"
    /\ UNCHANGED <<instanceVars, sessionVars, undeliveredTransitions>>

\* Mutant: the drain loop is an if: it destroys one swapchain and goes on
\* to the reference spaces.
DestroySwapchains_Once ==
    /\ pc = "destroySwapchains"
    /\ IF m_swapchains = {}
       THEN /\ pc' = "destroyOriginSpace"
            /\ UNCHANGED <<m_swapchains, last>>
       ELSE \E ok \in BOOLEAN :
            LET calls == Append(last.calls,
                                Call("xrDestroySwapchain", FirstSwapchain))
            IN
            IF ok
            THEN /\ m_swapchains' = DestroySwapchainEffect(FirstSwapchain)
                 /\ last' = [last EXCEPT !.calls = calls]
                 /\ pc' = "destroyOriginSpace"
            ELSE /\ last' = [last EXCEPT !.calls = calls,
                                         !.result = EXCEPTION]
                 /\ pc' = "ready"
                 /\ UNCHANGED m_swapchains
    /\ UNCHANGED <<instanceVars, m_sessionCreated, m_sessionState,
                   m_sessionStateDirty, m_sessionStateEventTime,
                   m_sessionExiting, m_sessionStartTime,
                   m_sessionTotalFrameCount, m_originSpace, m_viewSpace,
                   initialized, undeliveredTransitions>>

\* Mutant: a failing xrDestroySwapchain marks the session as gone before
\* the failure leaves the handler.
DestroySwapchains_ClearsCreated ==
    /\ pc = "destroySwapchains"
    /\ IF m_swapchains = {}
       THEN /\ pc' = "destroyOriginSpace"
            /\ UNCHANGED <<m_swapchains, m_sessionCreated, last>>
       ELSE \E ok \in BOOLEAN :
            LET calls == Append(last.calls,
                                Call("xrDestroySwapchain", FirstSwapchain))
            IN
            IF ok
            THEN /\ m_swapchains' = DestroySwapchainEffect(FirstSwapchain)
                 /\ last' = [last EXCEPT !.calls = calls]
                 /\ UNCHANGED <<pc, m_sessionCreated>>
            ELSE /\ last' = [last EXCEPT !.calls = calls,
                                         !.result = EXCEPTION]
                 /\ pc' = "ready"
                 /\ m_sessionCreated' = FALSE
                 /\ UNCHANGED m_swapchains
    /\ UNCHANGED <<instanceVars, m_sessionState,
                   m_sessionStateDirty, m_sessionStateEventTime,
                   m_sessionExiting, m_sessionStartTime,
                   m_sessionTotalFrameCount, m_originSpace, m_viewSpace,
                   initialized, undeliveredTransitions>>

\* Mutant: the drain loop stops when one swapchain is left.
DestroySwapchains_LeavesOne ==
    /\ pc = "destroySwapchains"
    /\ IF Cardinality(m_swapchains) <= 1
       THEN /\ pc' = "destroyOriginSpace"
            /\ UNCHANGED <<m_swapchains, last>>
       ELSE \E ok \in BOOLEAN :
            LET calls == Append(last.calls,
                                Call("xrDestroySwapchain", FirstSwapchain))
            IN
            IF ok
            THEN /\ m_swapchains' = DestroySwapchainEffect(FirstSwapchain)
                 /\ last' = [last EXCEPT !.calls = calls]
                 /\ UNCHANGED pc
            ELSE /\ last' = [last EXCEPT !.calls = calls,
                                         !.result = EXCEPTION]
                 /\ pc' = "ready"
                 /\ UNCHANGED m_swapchains
    /\ UNCHANGED <<instanceVars, m_sessionCreated, m_sessionState,
                   m_sessionStateDirty, m_sessionStateEventTime,
                   m_sessionExiting, m_sessionStartTime,
                   m_sessionTotalFrameCount, m_originSpace, m_viewSpace,
                   initialized, undeliveredTransitions>>

\* Lines 214-216: one turn of the drain loop; a failing xrDestroySwapchain
\* throws (CHECK_XRCMD) and leaves the handler.
DestroySwapchains ==
    /\ pc = "destroySwapchains"
    /\ IF m_swapchains = {}
       THEN /\ pc' = "destroyOriginSpace"
            /\ UNCHANGED <<m_swapchains, last>>
       ELSE \E ok \in BOOLEAN :
            LET calls == Append(last.calls,
                                Call("xrDestroySwapchain", FirstSwapchain))
            IN
            IF ok
            THEN /\ m_swapchains' = DestroySwapchainEffect(FirstSwapchain)
                 /\ last' = [last EXCEPT !.calls = calls]
                 /\ UNCHANGED pc
            ELSE /\ last' = [last EXCEPT !.calls = calls,
                                         !.result = EXCEPTION]
                 /\ pc' = "ready"
                 /\ UNCHANGED m_swapchains
    /\ UNCHANGED <<instanceVars, m_sessionCreated, m_sessionState,
                   m_sessionStateDirty, m_sessionStateEventTime,
                   m_sessionExiting, m_sessionStartTime,
                   m_sessionTotalFrameCount, m_originSpace, m_viewSpace,
                   initialized, undeliveredTransitions>>

\* Lines 219-220.
DestroyOriginSpace ==
    /\ pc = "destroyOriginSpace"
    /\ \E ok \in BOOLEAN :
        LET calls == Append(last.calls, Call("xrDestroySpace", m_originSpace))
        IN
        IF ok
        THEN /\ m_originSpace' = XR_NULL_HANDLE
             /\ last' = [last EXCEPT !.calls = calls]
             /\ pc' = "destroyViewSpace"
        ELSE /\ last' = [last EXCEPT !.calls = calls, !.result = EXCEPTION]
             /\ pc' = "ready"
             /\ UNCHANGED m_originSpace
    /\ UNCHANGED <<instanceVars, m_sessionCreated, m_sessionState,
                   m_sessionStateDirty, m_sessionStateEventTime,
                   m_sessionExiting, m_sessionStartTime,
                   m_sessionTotalFrameCount, m_viewSpace, m_swapchains,
                   initialized, undeliveredTransitions>>

\* Lines 221-222.
DestroyViewSpace ==
    /\ pc = "destroyViewSpace"
    /\ \E ok \in BOOLEAN :
        LET calls == Append(last.calls, Call("xrDestroySpace", m_viewSpace))
        IN
        IF ok
        THEN /\ m_viewSpace' = XR_NULL_HANDLE
             /\ last' = [last EXCEPT !.calls = calls]
             /\ pc' = "cleanup"
        ELSE /\ last' = [last EXCEPT !.calls = calls, !.result = EXCEPTION]
             /\ pc' = "ready"
             /\ UNCHANGED m_viewSpace
    /\ UNCHANGED <<instanceVars, m_sessionCreated, m_sessionState,
                   m_sessionStateDirty, m_sessionStateEventTime,
                   m_sessionExiting, m_sessionStartTime,
                   m_sessionTotalFrameCount, m_originSpace, m_swapchains,
                   initialized, undeliveredTransitions>>

\* Lines 225-228.
DestroyCleanup ==
    /\ pc = "cleanup"
    /\ initialized' = CleanupAll(initialized)
    /\ last' = [last EXCEPT !.calls = last.calls \o
                    <<Call("cleanupOpenGL", 0), Call("cleanupVulkan", 0),
                      Call("cleanupD3D12", 0), Call("cleanupD3D11", 0)>>]
    /\ pc' = "resetState"
    /\ UNCHANGED <<instanceVars, m_sessionCreated, m_sessionState,
                   m_sessionStateDirty, m_sessionStateEventTime,
                   m_sessionExiting, m_sessionStartTime,
                   m_sessionTotalFrameCount, m_originSpace, m_viewSpace,
                   m_swapchains, undeliveredTransitions>>

\* Line 229.
DestroyResetState ==
    /\ pc = "resetState"
    /\ m_sessionState' = "XR_SESSION_STATE_UNKNOWN"
    /\ TransitionMade
    /\ pc' = "resetDirty"
    /\ UNCHANGED <<instanceVars, m_sessionCreated, m_sessionStateDirty,
                   m_sessionStateEventTime, m_sessionExiting,
                   m_sessionStartTime, m_sessionTotalFrameCount,
                   m_originSpace, m_viewSpace, m_swapchains, initialized, last>>

\* Mutant: xrDestroySession does not clear m_sessionStateDirty.
DestroyResetDirty_Forgets ==
    /\ pc = "resetDirty"
    /\ pc' = "resetCreated"
    /\ UNCHANGED <<instanceVars, undeliveredTransitions, sessionVars, last>>

\* Line 230.
DestroyResetDirty ==
    /\ pc = "resetDirty"
    /\ m_sessionStateDirty' = FALSE
    /\ pc' = "resetCreated"
    /\ UNCHANGED <<instanceVars, undeliveredTransitions, m_sessionCreated,
                   m_sessionState,
                   m_sessionStateEventTime, m_sessionExiting,
                   m_sessionStartTime, m_sessionTotalFrameCount,
                   m_originSpace, m_viewSpace, m_swapchains, initialized, last>>

\* Line 231.
DestroyResetCreated ==
    /\ pc = "resetCreated"
    /\ m_sessionCreated' = FALSE
    /\ pc' = "resetExiting"
    /\ UNCHANGED <<instanceVars, undeliveredTransitions, m_sessionState,
                   m_sessionStateDirty,
                   m_sessionStateEventTime, m_sessionExiting,
                   m_sessionStartTime, m_sessionTotalFrameCount,
                   m_originSpace, m_viewSpace, m_swapchains, initialized, last>>

\* Mutant: xrDestroySession does not clear m_sessionExiting.
DestroyResetExiting_Forgets ==
    /\ pc = "resetExiting"
    /\ last' = [last EXCEPT !.result = "XR_SUCCESS"]
    /\ pc' = "ready"
    /\ UNCHANGED <<instanceVars, sessionVars, undeliveredTransitions>>

\* Lines 232-234.
DestroyResetExiting ==
    /\ pc = "resetExiting"
    /\ m_sessionExiting' = FALSE
    /\ last' = [last EXCEPT !.result = "XR_SUCCESS"]
    /\ pc' = "ready"
    /\ UNCHANGED <<instanceVars, m_sessionCreated, m_sessionState,
                   m_sessionStateDirty, m_sessionStateEventTime,
                   m_sessionStartTime, m_sessionTotalFrameCount,
                   m_originSpace, m_viewSpace, m_swapchains, initialized,
                   undeliveredTransitions>>

\* ------------------------------------------- calls outside session.cpp

\* xrCreateInstance: the instance exists and its extensions are fixed.
xrCreateInstance(extensions) ==
    /\ CallerReady
    /\ ~m_instanceCreated
    /\ m_instanceCreated' = TRUE
    /\ enabledExtensions' = extensions
    /\ UNCHANGED <<m_systemCreated, m_graphicsRequirementQueried,
                   sessionVars, pc, undeliveredTransitions, last>>

\* xrGetSystem
xrGetSystem ==
    /\ CallerReady
    /\ m_instanceCreated
    /\ ~m_systemCreated
    /\ m_systemCreated' = TRUE
    /\ UNCHANGED <<m_instanceCreated, m_graphicsRequirementQueried,
                   enabledExtensions, sessionVars, pc, undeliveredTransitions, last>>

\* xrGet*GraphicsRequirementsKHR
xrGetGraphicsRequirements ==
    /\ CallerReady
    /\ m_systemCreated
    /\ ~m_graphicsRequirementQueried
    /\ m_graphicsRequirementQueried' = TRUE
    /\ UNCHANGED <<m_instanceCreated, m_systemCreated, enabledExtensions,
                   sessionVars, pc, undeliveredTransitions, last>>

\* xrCreateSwapchain: the session owns one more swapchain.
xrCreateSwapchain(swapchain) ==
    /\ CallerReady
    /\ m_sessionCreated
    /\ swapchain = Cardinality(m_swapchains) + 1
    /\ m_swapchains' = m_swapchains \cup {swapchain}
    /\ UNCHANGED <<instanceVars, m_sessionCreated, m_sessionState,
                   m_sessionStateDirty, m_sessionStateEventTime,
                   m_sessionExiting, m_sessionStartTime,
                   m_sessionTotalFrameCount, m_originSpace, m_viewSpace,
                   initialized, pc, undeliveredTransitions, last>>

\* Frame and focus signalling: Idle -> Ready, Synchronized -> Visible,
\* Visible -> Focused, each a state change with its event time.
SessionStateSignal ==
    /\ CallerReady
    /\ m_sessionCreated
    /\ m_sessionState \in {"XR_SESSION_STATE_IDLE",
                           "XR_SESSION_STATE_SYNCHRONIZED",
                           "XR_SESSION_STATE_VISIBLE"}
    /\ m_sessionState' =
         CASE m_sessionState = "XR_SESSION_STATE_IDLE" ->
                "XR_SESSION_STATE_READY"
           [] m_sessionState = "XR_SESSION_STATE_SYNCHRONIZED" ->
                "XR_SESSION_STATE_VISIBLE"
           [] m_sessionState = "XR_SESSION_STATE_VISIBLE" ->
                "XR_SESSION_STATE_FOCUSED"
    /\ m_sessionStateDirty' = TRUE
    /\ \E t \in ClockReadings :
        /\ m_sessionStateEventTime' = t
    /\ TransitionMade
    /\ UNCHANGED <<instanceVars, m_sessionCreated, m_sessionExiting,
                   m_sessionStartTime, m_sessionTotalFrameCount,
                   m_originSpace, m_viewSpace, m_swapchains, initialized, pc, last>>

\* Event delivery: a pending state change is handed to the application.
xrPollEvent ==
    /\ CallerReady
    /\ m_sessionStateDirty
    /\ m_sessionStateDirty' = FALSE
    /\ EventDelivered
    /\ UNCHANGED <<instanceVars, m_sessionCreated, m_sessionState,
                   m_sessionStateEventTime, m_sessionExiting,
                   m_sessionStartTime, m_sessionTotalFrameCount,
                   m_originSpace, m_viewSpace, m_swapchains, initialized, pc, last>>

\* Frame submission: a running session counts its frames.
xrEndFrame ==
    /\ CallerReady
    /\ m_sessionCreated
    /\ m_sessionState \in {"XR_SESSION_STATE_SYNCHRONIZED",
                           "XR_SESSION_STATE_VISIBLE",
                           "XR_SESSION_STATE_FOCUSED"}
    /\ m_sessionTotalFrameCount < MaxFrames
    /\ m_sessionTotalFrameCount' = m_sessionTotalFrameCount + 1
    /\ UNCHANGED <<instanceVars, m_sessionCreated, m_sessionState,
                   m_sessionStateDirty, m_sessionStateEventTime,
                   m_sessionExiting, m_sessionStartTime, m_originSpace,
                   m_viewSpace, m_swapchains, initialized, pc,
                   undeliveredTransitions, last>>

Next ==
    \/ \E typeOk \in BOOLEAN, session \in Handles,
       viewConfig \in ViewConfigurationTypes :
        xrBeginSession(typeOk, session, viewConfig)
    \/ \E typeOk \in BOOLEAN, instance \in Handles, systemId \in Handles :
        xrCreateSession(typeOk, instance, systemId, LifecycleChains)
    \/ \E session \in Handles : xrEndSession(session)
    \/ \E session \in Handles : xrRequestExitSession(session)
    \/ \E session \in Handles : xrDestroySession(session)
    \/ DestroySwapchains
    \/ DestroyOriginSpace
    \/ DestroyViewSpace
    \/ DestroyCleanup
    \/ DestroyResetState
    \/ DestroyResetDirty
    \/ DestroyResetCreated
    \/ DestroyResetExiting
    \/ \E extensions \in LifecycleExtensionSets : xrCreateInstance(extensions)
    \/ xrGetSystem
    \/ xrGetGraphicsRequirements
    \/ \E swapchain \in 1..MaxSwapchains : xrCreateSwapchain(swapchain)
    \/ SessionStateSignal
    \/ xrPollEvent
    \/ xrEndFrame
    \/ ReturnToCaller

Spec == Init /\ [][Next]_vars

\* The binding-resolution specification: every extension set and every
\* request chain within the bounds, over repeated creation alone (what the
\* scan does with a chain depends on no field a Destroy writes).
NextResolve ==
    \/ \E extensions \in ExtensionSets : xrCreateInstance(extensions)
    \/ xrGetSystem
    \/ xrGetGraphicsRequirements
    \/ \E typeOk \in BOOLEAN, instance \in Handles, systemId \in Handles :
        xrCreateSession(typeOk, instance, systemId, Chains)
    \/ ReturnToCaller

SpecResolve == Init /\ [][NextResolve]_vars

\* The event-delivery specification: the five lifecycle calls interleaved
\* with event-delivery polls, with no frame or focus signalling.
NextEvents ==
    \/ \E extensions \in LifecycleExtensionSets : xrCreateInstance(extensions)
    \/ xrGetSystem
    \/ xrGetGraphicsRequirements
    \/ \E typeOk \in BOOLEAN, instance \in Handles, systemId \in Handles :
        xrCreateSession(typeOk, instance, systemId, LifecycleChains)
    \/ \E typeOk \in BOOLEAN, session \in Handles,
       viewConfig \in ViewConfigurationTypes :
        xrBeginSession(typeOk, session, viewConfig)
    \/ \E session \in Handles : xrRequestExitSession(session)
    \/ \E session \in Handles : xrEndSession(session)
    \/ \E session \in Handles : xrDestroySession(session)
    \/ DestroySwapchains
    \/ DestroyOriginSpace
    \/ DestroyViewSpace
    \/ DestroyCleanup
    \/ DestroyResetState
    \/ DestroyResetDirty
    \/ DestroyResetCreated
    \/ DestroyResetExiting
    \/ \E swapchain \in 1..MaxSwapchains : xrCreateSwapchain(swapchain)
    \/ xrPollEvent
    \/ ReturnToCaller

SpecEvents == Init /\ [][NextEvents]_vars

\* The statements of xrDestroySession after its handle check.
DestroyTeardown ==
    \/ DestroySwapchains
    \/ DestroyOriginSpace
    \/ DestroyViewSpace
    \/ DestroyCleanup
    \/ DestroyResetState
    \/ DestroyResetDirty
    \/ DestroyResetCreated
    \/ DestroyResetExiting

\* The teardown specification: the event-delivery specification with the
\* handler running on.  The runtime is single-threaded and every call
\* xrDestroySession makes is synchronous and returns or throws, so a
\* statement that control has reached is executed.
SpecTeardown == SpecEvents /\ WF_vars(DestroyTeardown)

\* ------------------------------------------------------------ properties

\* The call on record was made on the existing session with a well-formed
\* request.
OnExistingSession(op) ==
    /\ last.op = op
    /\ last.typeOk
    /\ last.handle = XR_VALID_HANDLE
    /\ last.pre.created

\* The state, dirty flag and event time are as they were when the call on
\* record was entered.
StateFieldsUntouched ==
    /\ m_sessionState = last.pre.state
    /\ m_sessionStateDirty = last.pre.dirty
    /\ m_sessionStateEventTime = last.pre.eventTime

\* The transition table of the state machine as the claim C1 gives it.
TableTransition(op, from, to) ==
    \/ /\ op = "xrCreateSession"
       /\ from = "XR_SESSION_STATE_UNKNOWN"
       /\ to = "XR_SESSION_STATE_IDLE"
    \/ /\ op = "xrBeginSession"
       /\ from \in {"XR_SESSION_STATE_IDLE", "XR_SESSION_STATE_READY"}
       /\ to = "XR_SESSION_STATE_SYNCHRONIZED"
    \/ /\ op = "xrRequestExitSession"
       /\ from \in {"XR_SESSION_STATE_SYNCHRONIZED",
                    "XR_SESSION_STATE_VISIBLE", "XR_SESSION_STATE_FOCUSED"}
       /\ to = "XR_SESSION_STATE_STOPPING"
    \/ /\ op = "xrEndSession"
       /\ from = "XR_SESSION_STATE_STOPPING"
       /\ to = "XR_SESSION_STATE_IDLE"
    \/ /\ op = "xrDestroySession"
       /\ from = "XR_SESSION_STATE_IDLE"
       /\ to = "XR_SESSION_STATE_UNKNOWN"

\* C1, as claimed: every change of m_sessionState made by a lifecycle call
\* is a transition of the table, where Destroy is Idle -> Unknown only.
\* (A step of frame or focus signalling leaves no call on record.)
C1_OnlyTableTransitions ==
    [][(m_sessionState' # m_sessionState /\ last'.op # "none")
        => TableTransition(last'.op, m_sessionState, m_sessionState')]_vars

\* C1, amended: every change of m_sessionState made by a lifecycle call is
\* a transition of the table, or is made by Destroy, which takes the
\* session to Unknown from whichever state it is in.
C1_OnlyTableTransitionsOrDestroy ==
    [][(m_sessionState' # m_sessionState /\ last'.op # "none")
        => \/ TableTransition(last'.op, m_sessionState, m_sessionState')
           \/ /\ last'.op = "xrDestroySession"
              /\ m_sessionState' = "XR_SESSION_STATE_UNKNOWN"]_vars

\* C1 witness: Destroy has reset the state of a session that was
\* Synchronized when it was entered.
C1_Witness ==
    /\ last.op = "xrDestroySession"
    /\ last.pre.state = "XR_SESSION_STATE_SYNCHRONIZED"
    /\ m_sessionState = "XR_SESSION_STATE_UNKNOWN"

\* C2: a Create whose tag, instance, system and graphics-requirements
\* checks pass while a session exists returns XR_ERROR_LIMIT_REACHED, calls
\* no collaborator (no backend initializer) and leaves every field of the
\* session as it was.
C2_SecondCreateRejected ==
    (/\ OnExistingSession("xrCreateSession")
     /\ last.systemId = XR_VALID_HANDLE
     /\ m_instanceCreated /\ m_systemCreated /\ m_graphicsRequirementQueried)
    => /\ last.result = "XR_ERROR_LIMIT_REACHED"
       /\ last.calls = <<>>
       /\ Snapshot = last.pre

\* C2 witness: such a Create was made on a focused session that owns
\* swapchains and has counted frames.
C2_Witness ==
    /\ OnExistingSession("xrCreateSession")
    /\ last.systemId = XR_VALID_HANDLE
    /\ last.result = "XR_ERROR_LIMIT_REACHED"
    /\ last.pre.state = "XR_SESSION_STATE_FOCUSED"
    /\ last.pre.swapchains # {}
    /\ last.pre.frameCount > 0
    /\ last.pre.initialized # {}

\* C5: Begin on the existing session with the stereo configuration
\* succeeds, and sets the state to Synchronized, exactly when the state was
\* Idle or Ready; from any other state it returns
\* XR_ERROR_SESSION_NOT_READY and leaves state, dirty flag and event time.
C5_BeginOnlyFromIdleOrReady ==
    (/\ OnExistingSession("xrBeginSession")
     /\ last.viewConfig = "XR_VIEW_CONFIGURATION_TYPE_PRIMARY_STEREO")
    => IF last.pre.state \in {"XR_SESSION_STATE_IDLE",
                              "XR_SESSION_STATE_READY"}
       THEN /\ last.result = "XR_SUCCESS"
            /\ m_sessionState = "XR_SESSION_STATE_SYNCHRONIZED"
       ELSE /\ last.result = "XR_ERROR_SESSION_NOT_READY"
            /\ StateFieldsUntouched

\* C5 witness: Begin was refused on a focused session whose last state
\* change had been delivered.
C5_Witness ==
    /\ OnExistingSession("xrBeginSession")
    /\ last.viewConfig = "XR_VIEW_CONFIGURATION_TYPE_PRIMARY_STEREO"
    /\ last.pre.state = "XR_SESSION_STATE_FOCUSED"
    /\ ~last.pre.dirty
    /\ last.result = "XR_ERROR_SESSION_NOT_READY"

\* C6: RequestExit on the existing session succeeds, and sets the state to
\* Stopping, exactly when the state was Synchronized, Visible or Focused;
\* from Idle, Ready or Stopping it returns XR_ERROR_SESSION_NOT_RUNNING and
\* leaves state, dirty flag and event time.
C6_RequestExitOnlyWhenRunning ==
    OnExistingSession("xrRequestExitSession")
    => IF last.pre.state \in {"XR_SESSION_STATE_SYNCHRONIZED",
                              "XR_SESSION_STATE_VISIBLE",
                              "XR_SESSION_STATE_FOCUSED"}
       THEN /\ last.result = "XR_SUCCESS"
            /\ m_sessionState = "XR_SESSION_STATE_STOPPING"
       ELSE /\ last.pre.state \in {"XR_SESSION_STATE_IDLE",
                                   "XR_SESSION_STATE_READY",
                                   "XR_SESSION_STATE_STOPPING"}
            /\ last.result = "XR_ERROR_SESSION_NOT_RUNNING"
            /\ StateFieldsUntouched

\* C6 witness: RequestExit was refused on a session that was Ready and
\* whose last state change had been delivered.
C6_Witness ==
    /\ OnExistingSession("xrRequestExitSession")
    /\ last.pre.state = "XR_SESSION_STATE_READY"
    /\ ~last.pre.dirty
    /\ last.result = "XR_ERROR_SESSION_NOT_RUNNING"

\* C7: End on the existing session succeeds only when the state was
\* Stopping, and then the state is Idle and m_sessionExiting is set; from
\* any other state it returns XR_ERROR_SESSION_NOT_STOPPING and changes
\* neither the state nor m_sessionExiting.  Right after a successful End
\* the checks of a second End give XR_ERROR_SESSION_NOT_STOPPING.
C7_EndOnlyFromStopping ==
    OnExistingSession("xrEndSession")
    => IF last.pre.state = "XR_SESSION_STATE_STOPPING"
       THEN /\ last.result = "XR_SUCCESS"
            /\ m_sessionState = "XR_SESSION_STATE_IDLE"
            /\ m_sessionExiting
            /\ EndChecks(XR_VALID_HANDLE) = "XR_ERROR_SESSION_NOT_STOPPING"
       ELSE /\ last.result = "XR_ERROR_SESSION_NOT_STOPPING"
            /\ m_sessionState = last.pre.state
            /\ m_sessionExiting = last.pre.exiting

\* C7 witness: an End was refused on an idle session that an earlier End
\* had stopped.
C7_Witness ==
    /\ OnExistingSession("xrEndSession")
    /\ last.pre.state = "XR_SESSION_STATE_IDLE"
    /\ last.pre.exiting
    /\ last.result = "XR_ERROR_SESSION_NOT_STOPPING"

\* The backend a chain entry's tag names, "None" for a tag that is no
\* graphics binding.
RecognizedBackend(entryType) ==
    CASE entryType = "XR_TYPE_GRAPHICS_BINDING_D3D11_KHR" -> "D3D11"
      [] entryType = "XR_TYPE_GRAPHICS_BINDING_D3D12_KHR" -> "D3D12"
      [] entryType = "XR_TYPE_GRAPHICS_BINDING_VULKAN_KHR" -> "Vulkan"
      [] entryType = "XR_TYPE_GRAPHICS_BINDING_OPENGL_WIN32_KHR" -> "OpenGL"
      [] OTHER -> "None"

\* The extensions that enable a backend.
ExtensionsOf(backend) ==
    CASE backend = "D3D11" -> {"XR_KHR_D3D11_enable"}
      [] backend = "D3D12" -> {"XR_KHR_D3D12_enable"}
      [] backend = "Vulkan" -> {"XR_KHR_vulkan_enable", "XR_KHR_vulkan_enable2"}
      [] backend = "OpenGL" -> {"XR_KHR_opengl_enable"}
      [] OTHER -> {}

\* A chain entry of a recognized kind whose extension is enabled.
Eligible(entryType) ==
    ExtensionsOf(RecognizedBackend(entryType)) \cap enabledExtensions # {}

EligibleEntries(chain) == {i \in 1..Len(chain) : Eligible(chain[i])}

IsInitializer(call) ==
    call.fn \in {"initializeD3D11", "initializeD3D12", "initializeVulkan",
                 "initializeOpenGL"}

\* The backend initializers the call on record invoked, in order.
InitializersInvoked == SelectSeq(last.calls, IsInitializer)

\* The call on record is a Create that passed its five preconditions.
CreatePassedPreconditions ==
    /\ last.op = "xrCreateSession"
    /\ last.typeOk
    /\ m_instanceCreated /\ last.handle = XR_VALID_HANDLE
    /\ m_systemCreated /\ last.systemId = XR_VALID_HANDLE
    /\ m_graphicsRequirementQueried
    /\ ~last.pre.created

\* C3, as claimed: a Create that passes its preconditions with a chain
\* that has no eligible entry returns XR_ERROR_GRAPHICS_DEVICE_INVALID,
\* invokes no backend initializer, and leaves the session not created with
\* state Unknown.
C3_NoEligibleEntry ==
    (CreatePassedPreconditions /\ EligibleEntries(last.chain) = {})
    => /\ last.result = "XR_ERROR_GRAPHICS_DEVICE_INVALID"
       /\ InitializersInvoked = <<>>
       /\ ~m_sessionCreated
       /\ m_sessionState = "XR_SESSION_STATE_UNKNOWN"

\* What the code does keep of C3: the error, no collaborator call, and no
\* field of the session changed (so the session stays not created).
C3_NoEligibleEntryChangesNothing ==
    (CreatePassedPreconditions /\ EligibleEntries(last.chain) = {})
    => /\ last.result = "XR_ERROR_GRAPHICS_DEVICE_INVALID"
       /\ last.calls = <<>>
       /\ Snapshot = last.pre
       /\ ~m_sessionCreated

\* C4: a Create invokes at most one backend initializer; when it has
\* passed its preconditions that is the initializer of the first entry, in
\* chain order, of a recognized kind with its extension enabled, handed
\* that entry, and none when no entry is eligible.
C4_FirstMatchWins ==
    last.op = "xrCreateSession"
    => /\ Len(InitializersInvoked) <= 1
       /\ IF CreatePassedPreconditions /\ EligibleEntries(last.chain) # {}
          THEN LET first == CHOOSE i \in EligibleEntries(last.chain) :
                              \A j \in EligibleEntries(last.chain) : i <= j
               IN InitializersInvoked =
                    <<Call(InitializerOf(RecognizedBackend(last.chain[first])),
                           first)>>
          ELSE InitializersInvoked = <<>>

\* C4 witness: with D3D11 and Vulkan both enabled, a chain D3D11 then
\* Vulkan has initialized D3D11 alone.
C4_Witness ==
    /\ CreatePassedPreconditions
    /\ last.chain = <<"XR_TYPE_GRAPHICS_BINDING_D3D11_KHR",
                      "XR_TYPE_GRAPHICS_BINDING_VULKAN_KHR">>
    /\ has_XR_KHR_D3D11_enable
    /\ has_XR_KHR_vulkan_enable2
    /\ last.result = "XR_SUCCESS"
    /\ InitializersInvoked = <<Call("initializeD3D11", 1)>>
    /\ initialized = {"D3D11"}

\* C8: Destroy makes every xrDestroySwapchain call before any
\* xrDestroySpace call; once a reference space is destroyed or cleared,
\* every swapchain the session owned has been destroyed and the set is
\* empty; when it returns success the set is empty, both space handles are
\* null and the check of a further Destroy gives XR_ERROR_HANDLE_INVALID;
\* a Destroy entered with no session returns XR_ERROR_HANDLE_INVALID, calls
\* nothing and changes nothing.
C8_SwapchainsBeforeSpaces ==
    last.op = "xrDestroySession"
    => LET calls == last.calls
           swaps == {i \in 1..Len(calls) : calls[i].fn = "xrDestroySwapchain"}
           spaces == {i \in 1..Len(calls) : calls[i].fn = "xrDestroySpace"}
       IN
       /\ \A i \in swaps : \A j \in spaces : i < j
       /\ (\/ spaces # {}
           \/ m_originSpace # last.pre.originSpace
           \/ m_viewSpace # last.pre.viewSpace)
          => /\ m_swapchains = {}
             /\ {calls[i].arg : i \in swaps} = last.pre.swapchains
             /\ Cardinality(swaps) = Cardinality(last.pre.swapchains)
       /\ last.result = "XR_SUCCESS"
          => /\ m_swapchains = {}
             /\ m_originSpace = XR_NULL_HANDLE
             /\ m_viewSpace = XR_NULL_HANDLE
             /\ \A session \in Handles :
                    DestroyChecks(session) = "XR_ERROR_HANDLE_INVALID"
       /\ ~last.pre.created
          => /\ last.result = "XR_ERROR_HANDLE_INVALID"
             /\ calls = <<>>
             /\ Snapshot = last.pre

\* C8 witness: a Destroy has returned success on a session that owned two
\* swapchains.
C8_Witness ==
    /\ last.op = "xrDestroySession"
    /\ last.result = "XR_SUCCESS"
    /\ Cardinality(last.pre.swapchains) = 2

\* The error of the first precondition of Create that the call on record
\* violates, in the order tag, instance, system, requirements, session.
CreateFirstViolated ==
    IF ~last.typeOk THEN "XR_ERROR_VALIDATION_FAILURE"
    ELSE IF ~(m_instanceCreated /\ last.handle = XR_VALID_HANDLE)
        THEN "XR_ERROR_HANDLE_INVALID"
    ELSE IF ~(m_systemCreated /\ last.systemId = XR_VALID_HANDLE)
        THEN "XR_ERROR_SYSTEM_INVALID"
    ELSE IF ~m_graphicsRequirementQueried
        THEN "XR_ERROR_GRAPHICS_REQUIREMENTS_CALL_MISSING"
    ELSE IF last.pre.created THEN "XR_ERROR_LIMIT_REACHED"
    ELSE "none"

\* C9: a Create that violates preconditions returns the error of the first
\* one it violates, in the order tag, instance, system, requirements,
\* session; it calls no collaborator and changes no field of the session.
C9_CreateCheckOrder ==
    (last.op = "xrCreateSession" /\ CreateFirstViolated # "none")
    => /\ last.result = CreateFirstViolated
       /\ last.calls = <<>>
       /\ Snapshot = last.pre

\* C9 witness: a Create with a wrong instance handle and a wrong system
\* identifier, made while a session exists, returned
\* XR_ERROR_HANDLE_INVALID.
C9_Witness ==
    /\ last.op = "xrCreateSession"
    /\ last.typeOk
    /\ last.handle # XR_VALID_HANDLE
    /\ last.systemId # XR_VALID_HANDLE
    /\ last.pre.created
    /\ last.result = "XR_ERROR_HANDLE_INVALID"

\* The error of the first check of Begin that the call on record fails, in
\* the order tag, session handle, view configuration, state.
BeginFirstViolated ==
    IF ~last.typeOk THEN "XR_ERROR_VALIDATION_FAILURE"
    ELSE IF ~(last.pre.created /\ last.handle = XR_VALID_HANDLE)
        THEN "XR_ERROR_HANDLE_INVALID"
    ELSE IF last.viewConfig # "XR_VIEW_CONFIGURATION_TYPE_PRIMARY_STEREO"
        THEN "XR_ERROR_VIEW_CONFIGURATION_TYPE_UNSUPPORTED"
    ELSE IF last.pre.state \notin {"XR_SESSION_STATE_IDLE",
                                   "XR_SESSION_STATE_READY"}
        THEN "XR_ERROR_SESSION_NOT_READY"
    ELSE "none"

\* C10: a Begin that fails a check returns the error of the first check
\* it fails, in the order tag, session handle, view configuration, state,
\* and changes no field of the session.
C10_BeginCheckOrder ==
    (last.op = "xrBeginSession" /\ BeginFirstViolated # "none")
    => /\ last.result = BeginFirstViolated
       /\ Snapshot = last.pre

\* C10 witness: a Begin with a configuration that is not stereo, made on a
\* focused session, returned
\* XR_ERROR_VIEW_CONFIGURATION_TYPE_UNSUPPORTED.
C10_Witness ==
    /\ OnExistingSession("xrBeginSession")
    /\ last.viewConfig # "XR_VIEW_CONFIGURATION_TYPE_PRIMARY_STEREO"
    /\ last.pre.state = "XR_SESSION_STATE_FOCUSED"
    /\ last.result = "XR_ERROR_VIEW_CONFIGURATION_TYPE_UNSUPPORTED"

\* The call on record is a successful Begin on a session that was Idle.
BeginFromIdleSucceeded ==
    /\ OnExistingSession("xrBeginSession")
    /\ last.pre.state = "XR_SESSION_STATE_IDLE"
    /\ last.result = "XR_SUCCESS"

\* C11, as claimed: after a successful Create and a successful Begin from
\* Idle, m_sessionStateEventTime is strictly greater than the creation
\* timestamp m_sessionStartTime.
C11_BeginTimeStrictlyLater ==
    BeginFromIdleSucceeded => m_sessionStateEventTime > m_sessionStartTime

\* C11, amended: after a successful Create and a successful Begin from
\* Idle, m_sessionStateEventTime is not below the creation timestamp
\* m_sessionStartTime, which Begin leaves as Create set it; the two are
\* equal when the monotonic clock returns the same reading twice.
C11_BeginTimeNotEarlier ==
    BeginFromIdleSucceeded
    => /\ m_sessionStateEventTime >= m_sessionStartTime
       /\ m_sessionStartTime = last.pre.startTime

\* C11 witness: a Begin from Idle succeeded with the clock returning the
\* reading Create had stored, and that reading is not the first one.
C11_Witness ==
    /\ BeginFromIdleSucceeded
    /\ m_sessionStateEventTime = m_sessionStartTime
    /\ m_sessionStartTime > 0

\* C12, as claimed: one state-change event is delivered per state change.
\* Between calls, once no event is pending (the dirty flag is clear), as
\* many events have been delivered as successful state changes were made.
C12_OneEventPerTransition ==
    (pc = "ready" /\ ~m_sessionStateDirty) => undeliveredTransitions = 0

\* A state in which C12 fails with every call having succeeded: Create and
\* Begin have each made a state change, one poll has delivered one event
\* and none is pending.
C12_TwoTransitionsOneEvent ==
    /\ pc = "ready"
    /\ m_sessionCreated
    /\ m_sessionState = "XR_SESSION_STATE_SYNCHRONIZED"
    /\ ~m_sessionStateDirty
    /\ undeliveredTransitions = 1

\* The call on record is a Create whose backend initializer returned a
\* failure.
InitializerFailed ==
    /\ last.op = "xrCreateSession"
    /\ last.initResult \in InitResults
    /\ XR_FAILED(last.initResult)

\* C13, as claimed: when the initializer of the selected backend fails,
\* Create returns exactly that failure, the initializer of the first
\* eligible entry is the only collaborator it has called (no later entry
\* is scanned, no other initializer runs), and the session is not marked
\* created: created is false, the state is Unknown and the dirty flag is as
\* it was.
C13_InitializerFailure ==
    InitializerFailed
    => /\ last.result = last.initResult
       /\ Len(last.calls) = 1
       /\ last.calls = InitializersInvoked
       /\ last.calls[1].arg = ScanChain(last.chain)
       /\ ~m_sessionCreated
       /\ m_sessionState = "XR_SESSION_STATE_UNKNOWN"
       /\ m_sessionStateDirty = last.pre.dirty

\* What the code does keep of C13: the failure is returned as it was
\* given, only that one initializer has run, and the call changes no field
\* of the session (so the session stays not created).
C13_InitializerFailureChangesNothing ==
    InitializerFailed
    => /\ last.result = last.initResult
       /\ Len(last.calls) = 1
       /\ last.calls = InitializersInvoked
       /\ last.calls[1].arg = ScanChain(last.chain)
       /\ ~m_sessionCreated
       /\ Snapshot = last.pre

\* The call on record is a Create that was left by the failure of
\* xrCreateReferenceSpace, for the origin space or for the view space.
SpaceCreationFailed ==
    /\ last.op = "xrCreateSession"
    /\ last.result = EXCEPTION
    /\ \E i \in 1..Len(last.calls) :
           last.calls[i].fn = "xrCreateReferenceSpace"

\* C14: when the creation of the origin space or of the view space fails
\* during Create, m_sessionCreated is false once the failure has reached
\* the caller: the checks of a following Create do not give
\* XR_ERROR_LIMIT_REACHED, and those of a following well-formed Begin, End,
\* RequestExit or Destroy give XR_ERROR_HANDLE_INVALID.
C14_SpaceFailureClearsCreated ==
    SpaceCreationFailed
    => /\ ~m_sessionCreated
       /\ \A typeOk \in BOOLEAN, instance \in Handles, systemId \in Handles :
              CreateChecks(typeOk, instance, systemId)
                  # "XR_ERROR_LIMIT_REACHED"
       /\ CreateChecks(TRUE, XR_VALID_HANDLE, XR_VALID_HANDLE) = "XR_SUCCESS"
       /\ \A session \in Handles :
              /\ \A viewConfig \in ViewConfigurationTypes :
                     BeginChecks(TRUE, session, viewConfig)
                         = "XR_ERROR_HANDLE_INVALID"
              /\ EndChecks(session) = "XR_ERROR_HANDLE_INVALID"
              /\ RequestExitChecks(session) = "XR_ERROR_HANDLE_INVALID"
              /\ DestroyChecks(session) = "XR_ERROR_HANDLE_INVALID"

\* C14 witness: a Create was left by the failure of the view space, after
\* the origin space had been created.
C14_Witness ==
    /\ SpaceCreationFailed
    /\ Len(last.calls) = 3
    /\ last.calls[3] = Call("xrCreateReferenceSpace",
                            NewSpaceHandle("XR_REFERENCE_SPACE_TYPE_VIEW"))
    /\ m_originSpace # XR_NULL_HANDLE
    /\ ~m_sessionCreated

\* The call on record is a Destroy that has returned success.
DestroySucceeded ==
    /\ last.op = "xrDestroySession"
    /\ pc = "ready"
    /\ last.result = "XR_SUCCESS"

\* The session as a successful Destroy leaves it.
DestroyedSession ==
    /\ m_sessionState = "XR_SESSION_STATE_UNKNOWN"
    /\ ~m_sessionStateDirty
    /\ ~m_sessionExiting
    /\ ~m_sessionCreated

\* The call on record has run the four backend cleanups.
CleanupsRun ==
    /\ \A fn \in {"cleanupOpenGL", "cleanupVulkan", "cleanupD3D12",
                  "cleanupD3D11"} :
           \E i \in 1..Len(last.calls) : last.calls[i].fn = fn
    /\ initialized = {}

\* The teardown that precedes the reset of the flags is complete.
TornDown ==
    /\ m_swapchains = {}
    /\ m_originSpace = XR_NULL_HANDLE
    /\ m_viewSpace = XR_NULL_HANDLE
    /\ CleanupsRun

\* C15, as claimed: a successful Destroy ends with state Unknown and the
\* dirty, exiting and created flags false, and m_sessionCreated is the last
\* of them to be cleared: at the step that clears it the swapchains are
\* drained, both spaces cleared, the four cleanups run, the state already
\* Unknown and the dirty and exiting flags already false.
C15_CreatedClearedLast ==
    /\ [](DestroySucceeded => DestroyedSession)
    /\ [][(m_sessionCreated /\ ~m_sessionCreated')
          => /\ TornDown
             /\ m_sessionState = "XR_SESSION_STATE_UNKNOWN"
             /\ ~m_sessionStateDirty
             /\ ~m_sessionExiting]_vars

\* C15, amended: a successful Destroy ends with state Unknown and the
\* dirty, exiting and created flags false; at the step that clears
\* m_sessionCreated the swapchains are drained, both spaces cleared, the
\* four cleanups run, the state already Unknown and the dirty flag already
\* false; m_sessionExiting keeps its value over that step and is cleared by
\* the statement after it, the last of the call.
C15_CreatedClearedBeforeExiting ==
    /\ [](DestroySucceeded => DestroyedSession)
    /\ [][(m_sessionCreated /\ ~m_sessionCreated')
          => /\ TornDown
             /\ m_sessionState = "XR_SESSION_STATE_UNKNOWN"
             /\ ~m_sessionStateDirty
             /\ m_sessionExiting' = m_sessionExiting
             /\ pc' = "resetExiting"]_vars
    /\ [][(m_sessionExiting /\ ~m_sessionExiting')
          => (~m_sessionCreated /\ DestroySucceeded')]_vars

\* C15 witness: Destroy has cleared m_sessionCreated on a session that an
\* End had stopped, and m_sessionExiting is still set.
C15_Witness ==
    /\ last.op = "xrDestroySession"
    /\ pc = "resetExiting"
    /\ ~m_sessionCreated
    /\ m_sessionExiting
    /\ last.pre.dirty

\* The call on record is a Destroy that was left by the failure of
\* xrDestroySwapchain: the last call it made.
SwapchainDestroyFailed ==
    /\ last.op = "xrDestroySession"
    /\ last.result = EXCEPTION
    /\ last.calls # <<>>
    /\ last.calls[Len(last.calls)].fn = "xrDestroySwapchain"

\* C16: when xrDestroySwapchain fails during Destroy the rest of the
\* teardown is not run: the failing call is the last call made, so no
\* further swapchain is destroyed, no reference space is destroyed and no
\* backend cleanup runs; the swapchains destroyed before it are gone and
\* the others, the failing one among them, are still owned; the created
\* flag, state, dirty flag, exiting flag, both space handles and the
\* backend resources are as they were when the call was entered; the
\* session still exists and the check of a later Destroy passes.
C16_SwapchainFailureAborts ==
    SwapchainDestroyFailed
    => LET calls == last.calls
           failing == calls[Len(calls)].arg
           destroyed == {calls[i].arg : i \in 1..(Len(calls) - 1)}
       IN
       /\ pc = "ready"
       /\ \A i \in 1..Len(calls) : calls[i].fn = "xrDestroySwapchain"
       /\ failing \notin destroyed
       /\ Cardinality(destroyed) = Len(calls) - 1
       /\ m_swapchains = last.pre.swapchains \ destroyed
       /\ failing \in m_swapchains
       /\ Snapshot = [last.pre EXCEPT !.swapchains = m_swapchains]
       /\ m_sessionCreated
       /\ DestroyChecks(XR_VALID_HANDLE) = "XR_SUCCESS"

\* C16 witness: a Destroy on a session with two swapchains and an event
\* pending destroyed the first and was left by the failure of the second.
C16_Witness ==
    /\ SwapchainDestroyFailed
    /\ Cardinality(last.pre.swapchains) = 2
    /\ Len(last.calls) = 2
    /\ Cardinality(m_swapchains) = 1
    /\ m_sessionStateDirty
    /\ m_sessionState # "XR_SESSION_STATE_IDLE"

\* C17, as claimed: backend resources are held only for a session:
\* whenever no session exists (m_sessionCreated is false) no backend holds
\* initialized resources, and never do two different backends hold them,
\* also after a Create that fails once its backend is initialized.
C17_BackendResourcesOwnedBySession ==
    /\ ~m_sessionCreated => initialized = {}
    /\ Cardinality(initialized) <= 1

\* A state in which C17 fails in its second part: no session exists and
\* two different backends hold initialized resources.
C17_TwoBackendsLeaked ==
    /\ pc = "ready"
    /\ ~m_sessionCreated
    /\ Cardinality(initialized) = 2

\* C18, as claimed: state Unknown means no session.  Between calls,
\* m_sessionCreated is false exactly when the state is Unknown, and while
\* it is false the dirty flag is clear and both reference-space handles
\* are null, also after a Create that fails at any step.
C18_UnknownMeansNoSession ==
    pc = "ready"
    => /\ ~m_sessionCreated <=> m_sessionState = "XR_SESSION_STATE_UNKNOWN"
       /\ ~m_sessionCreated
          => /\ ~m_sessionStateDirty
             /\ m_originSpace = XR_NULL_HANDLE
             /\ m_viewSpace = XR_NULL_HANDLE

\* A state in which C18 fails in each part: no session exists, the state
\* is Idle, an event is pending and the origin space handle is not null.
C18_RollbackLeavesIdle ==
    /\ pc = "ready"
    /\ ~m_sessionCreated
    /\ m_sessionState = "XR_SESSION_STATE_IDLE"
    /\ m_sessionStateDirty
    /\ m_originSpace # XR_NULL_HANDLE
    /\ m_viewSpace = XR_NULL_HANDLE

\* The xrDestroySwapchain calls the call on record has made.
SwapchainDestroyCalls ==
    {i \in 1..Len(last.calls) : last.calls[i].fn = "xrDestroySwapchain"}

\* C19: Destroy terminates.  On a session that owns n swapchains, where a
\* successful xrDestroySwapchain removes that swapchain from the owned
\* set, the drain loop makes at most n xrDestroySwapchain calls, each on a
\* different swapchain the session owned; a Destroy that has passed its
\* check eventually returns, with success or with the failure of a
\* swapchain or space destruction; and m_sessionCreated is never false
\* while the swapchain set is not empty.
C19_DestroyTerminates ==
    /\ [](last.op = "xrDestroySession"
          => /\ Cardinality(SwapchainDestroyCalls)
                    <= Cardinality(last.pre.swapchains)
             /\ \A i, j \in SwapchainDestroyCalls :
                    /\ last.calls[i].arg \in last.pre.swapchains
                    /\ last.calls[i].arg = last.calls[j].arg => i = j
             /\ pc = "ready"
                => last.result \in {"XR_SUCCESS", EXCEPTION,
                                    "XR_ERROR_HANDLE_INVALID"})
    /\ [](~m_sessionCreated => m_swapchains = {})
    /\ (last.op = "xrDestroySession" /\ last.result = PENDING)
           ~> (last.op = "xrDestroySession" /\ pc = "ready"
               /\ last.result \in {"XR_SUCCESS", EXCEPTION})

\* C19 witness: a Destroy on a session that owned as many swapchains as a
\* session can own drained them all and was then left by the failure of
\* xrDestroySpace.
C19_Witness ==
    /\ last.op = "xrDestroySession"
    /\ pc = "ready"
    /\ last.result = EXCEPTION
    /\ Cardinality(last.pre.swapchains) = MaxSwapchains
    /\ Cardinality(SwapchainDestroyCalls) = MaxSwapchains
    /\ last.calls[Len(last.calls)].fn = "xrDestroySpace"
    /\ m_swapchains = {}
    /\ m_sessionCreated

\* C20: m_sessionExiting is false when a Create has succeeded and, between
\* calls, whenever no session exists; it becomes true only by an End that
\* succeeds; once true it keeps its value through every Begin, RequestExit,
\* End, Create and failing call, and becomes false only by the last
\* statement of a Destroy that succeeds; Create never writes it.
C20_ExitingFlag ==
    /\ []((last.op = "xrCreateSession" /\ last.result = "XR_SUCCESS")
          => ~m_sessionExiting)
    /\ []((pc = "ready" /\ ~m_sessionCreated) => ~m_sessionExiting)
    /\ [][(~m_sessionExiting /\ m_sessionExiting')
          => /\ last'.op = "xrEndSession"
             /\ last'.result = "XR_SUCCESS"
             /\ last'.pre.created]_vars
    /\ [][(m_sessionExiting /\ ~m_sessionExiting')
          => /\ last'.op = "xrDestroySession"
             /\ last'.result = "XR_SUCCESS"
             /\ pc' = "ready"]_vars
    /\ [][last'.op = "xrCreateSession"
          => m_sessionExiting' = m_sessionExiting]_vars

\* C20 witness: a session that an End had stopped was begun again, and
\* m_sessionExiting is still set.
C20_Witness ==
    /\ OnExistingSession("xrBeginSession")
    /\ last.result = "XR_SUCCESS"
    /\ last.pre.exiting
    /\ m_sessionExiting

====
